---------------------------- MODULE Spec2Model ----------------------------
(***************************************************************************)
(* A model of term3d (src/src/lib.rs): the camera, the projector, the      *)
(* visibility test and depth sort, the rasterizer primitives and the frame *)
(* loop Term3D::run.                                                       *)
(*                                                                         *)
(* Numbers.  The f32 quantities of the program (seconds, world             *)
(* coordinates, angles in radians, sines) are fixed-point integers with    *)
(* FrameRate units to 1.0, so that the frame target of 1/60 s is one unit  *)
(* of time and every product and quotient is rounded once, as an f32       *)
(* operation is.  The i32 quantities (screen points, display sizes) are    *)
(* integers.  The quotients s and t of draw_tri are IEEE values: a         *)
(* rational, an infinity or NaN.                                           *)
(***************************************************************************)
EXTENDS Integers, Sequences, FiniteSets, TLC

VARIABLES
    pc,             \* position of run: "new", "poll", "update", "render", "pace", "done"
    cam,            \* Term3D.cam: [pos |-> <<x, y, z>>, rot |-> <<rot.0, rot.1>>]
    term,           \* the backend's size <<rows, cols>> (get_row_col_count)
    w, h,           \* run's cached display size
    cx, cy,         \* run's screen centre (fixed point)
    delta_time,     \* run's delta_time (fixed-point seconds)
    now,            \* the monotonic clock (fixed-point seconds), read from the end of
                    \* the last iteration: only differences of Instants are observed
    top_of_loop,    \* Instant taken at the top of the iteration
    after_updates,  \* Instant taken after the hook's update
    key,            \* the event of the iteration's poll
    screen,         \* cells written through draw_cell: <<x, y>> -> <<glyph, colour>>
    fs,             \* the iteration's frame state: vert_list, screen_coords, face_list, depth, order
    iter,           \* iterations begun
    calls,          \* how often each collaborator or primitive has been called
    ops,            \* the operations of the current iteration, in order
    hist,           \* observations of the run that the properties refer to
    args,           \* rasterizer harness: the arguments of the call
    out             \* rasterizer harness: what the call wrote

vars == <<pc, cam, term, w, h, cx, cy, delta_time, now, top_of_loop,
          after_updates, key, screen, fs, iter, calls, ops, hist, args, out>>

-----------------------------------------------------------------------------
(* Bounds of the model *)

MaxFrames == 2          \* iterations of the loop that are explored
MaxLag == 1             \* longest time one stretch of an iteration takes
MaxLineCoord == 4       \* draw_line: endpoints range over 0 .. MaxLineCoord
MaxTriCoord == 2        \* draw_tri: vertices range over -1 .. MaxTriCoord

(* Program constants *)

FrameRate == 60         \* frame_target_duration = 1 s / 60
Speed == 10             \* Camera::update: s = delta * 10.
Focal == 200            \* f = 200. / z
I32Max == 2147483647    \* (..) as i32 saturates

One == FrameRate        \* fixed point: the integer that stands for 1.0
frame_target_duration == One \div FrameRate

-----------------------------------------------------------------------------
(* f32 arithmetic in fixed point *)

Abs(n) == IF n < 0 THEN -n ELSE n

Sgn(n) == IF n < 0 THEN -1 ELSE IF n > 0 THEN 1 ELSE 0

\* n / d rounded to the nearest integer
RoundDiv(n, d) == Sgn(n) * Sgn(d) * ((2 * Abs(n) + Abs(d)) \div (2 * Abs(d)))

Mul(a, b) == RoundDiv(a * b, One)

Div(a, b) == RoundDiv(a * One, b)

\* 60 * sin(k / 6) and 60 * cos(k / 6), k = 0 .. 19
SinTab == <<0, 10, 20, 29, 37, 44, 50, 55, 58, 60, 60, 58, 55, 50, 43, 36, 27, 18, 8, -2>>

CosTab == <<60, 59, 57, 53, 47, 40, 32, 24, 14, 4, -6, -16, -25, -34, -41, -48, -53, -57, -59, -60>>

\* angles are multiples of Speed: every change of an angle is delta * 10
Sin(rad) == IF rad < 0 THEN -SinTab[((-rad) \div Speed) + 1] ELSE SinTab[(rad \div Speed) + 1]

Cos(rad) == CosTab[(Abs(rad) \div Speed) + 1]

\* (fixed-point value) as i32: truncation toward zero
ToI32(v) == Sgn(v) * (Abs(v) \div One)

rotate_2d(pos, rad) ==
    LET x == pos[1]
        y == pos[2]
        s == Sin(rad)
        c == Cos(rad)
    IN  <<Mul(x, c) - Mul(y, s), Mul(y, c) + Mul(x, s)>>

-----------------------------------------------------------------------------
(* Camera *)

Keys == {"q", "e", "w", "a", "s", "d", "KeyUp", "KeyDown", "KeyLeft", "KeyRight", "x"}

Events == Keys \cup {"Esc", "KeyResize", "None"}

CameraNew(pos, rot) == [pos |-> pos, rot |-> rot]

\* Camera::update with the look-up key turning the yaw
CameraUpdateYaw(c, delta, input) ==
    LET s == delta * Speed
        x == Mul(s, Sin(c.rot[2]))
        y == Mul(s, Cos(c.rot[2]))
    IN  CASE input = "q" -> [c EXCEPT !.pos[2] = @ + s]
          [] input = "e" -> [c EXCEPT !.pos[2] = @ - s]
          [] input = "w" -> [c EXCEPT !.pos[1] = @ + x, !.pos[3] = @ + y]
          [] input = "s" -> [c EXCEPT !.pos[1] = @ - x, !.pos[3] = @ - y]
          [] input = "a" -> [c EXCEPT !.pos[1] = @ - y, !.pos[3] = @ + x]
          [] input = "d" -> [c EXCEPT !.pos[1] = @ + y, !.pos[3] = @ - x]
          [] input = "KeyUp" -> [c EXCEPT !.rot[2] = @ - s]
          [] input = "KeyDown" -> [c EXCEPT !.rot[1] = @ + s]
          [] input = "KeyLeft" -> [c EXCEPT !.rot[2] = @ - s]
          [] input = "KeyRight" -> [c EXCEPT !.rot[2] = @ + s]
          [] OTHER -> c

CameraUpdate(c, delta, input) ==
    LET s == delta * Speed
        x == Mul(s, Sin(c.rot[2]))
        y == Mul(s, Cos(c.rot[2]))
    IN  CASE input = "q" -> [c EXCEPT !.pos[2] = @ + s]
          [] input = "e" -> [c EXCEPT !.pos[2] = @ - s]
          [] input = "w" -> [c EXCEPT !.pos[1] = @ + x, !.pos[3] = @ + y]
          [] input = "s" -> [c EXCEPT !.pos[1] = @ - x, !.pos[3] = @ - y]
          [] input = "a" -> [c EXCEPT !.pos[1] = @ - y, !.pos[3] = @ + x]
          [] input = "d" -> [c EXCEPT !.pos[1] = @ + y, !.pos[3] = @ - x]
          [] input = "KeyUp" -> [c EXCEPT !.rot[1] = @ - s]
          [] input = "KeyDown" -> [c EXCEPT !.rot[1] = @ + s]
          [] input = "KeyLeft" -> [c EXCEPT !.rot[2] = @ - s]
          [] input = "KeyRight" -> [c EXCEPT !.rot[2] = @ + s]
          [] OTHER -> c

-----------------------------------------------------------------------------
(* The mesh of run *)

verts == << <<-One, -One, -One>>, <<One, -One, -One>>, <<One, One, -One>>, <<-One, One, -One>>,
            <<-One, -One, One>>, <<One, -One, One>>, <<One, One, One>>, <<-One, One, One>> >>

faces == << <<0, 1, 2, 3>>, <<4, 5, 6, 7>>, <<0, 1, 5, 4>>,
            <<2, 3, 7, 6>>, <<0, 3, 7, 4>>, <<1, 2, 6, 5>> >>

COLORS == <<"Red", "Green", "Blue", "Yellow", "White", "Magenta">>

-----------------------------------------------------------------------------
(* Rasterizer *)

Min(a, b) == IF a < b THEN a ELSE b

Max(a, b) == IF a > b THEN a ELSE b

IVec2(x, y) == <<x, y>>

\* prelude: perpDot((a, b), (c, d)) = a * d - b * c, an f32
perp_dot_product(u, v) == u[1] * v[2] - u[2] * v[1]

\* the f32 quotient a / b of two finite values: a rational n / d with d > 0,
\* an infinity (b = 0, a # 0) or NaN (0 / 0)
FloatDiv(a, b) ==
    IF b = 0
    THEN [k |-> IF a = 0 THEN "nan" ELSE IF a > 0 THEN "pinf" ELSE "ninf", n |-> 0, d |-> 0]
    ELSE [k |-> "fin", n |-> a * Sgn(b), d |-> Abs(b)]

\* f >= 0.
GeZero(f) == f.k = "pinf" \/ (f.k = "fin" /\ f.n >= 0)

\* s + t <= 1.
SumLeOne(s, t) ==
    CASE s.k = "nan" \/ t.k = "nan" -> FALSE
      [] s.k = "fin" /\ t.k = "fin" ->
            IF s.d = t.d THEN s.n + t.n <= s.d
                         ELSE s.n * t.d + t.n * s.d <= s.d * t.d
      [] s.k = "pinf" \/ t.k = "pinf" -> FALSE
      [] OTHER -> TRUE

\* the test with s + t < 1.
InsideSTStrict(s, t) == GeZero(s) /\ GeZero(t) /\ SumLeOne(s, t) /\ s.n + t.n # s.d

\* (s >= 0.) && (t >= 0.) && (s + t <= 1.)
InsideST(s, t) == GeZero(s) /\ GeZero(t) /\ SumLeOne(s, t)

\* the quotients s and t of the point q, relative to v1
InsideQ(q, vs1, vs2, den) ==
    InsideST(FloatDiv(perp_dot_product(q, vs2), den), FloatDiv(perp_dot_product(vs1, q), den))

\* draw_tri's test of the point (x, y)
InsideTri(v1, v2, v3, x, y) ==
    LET vs1 == IVec2(v2[1] - v1[1], v2[2] - v1[2])
        vs2 == IVec2(v3[1] - v1[1], v3[2] - v1[2])
    IN  InsideQ(IVec2(x - v1[1], y - v1[2]), vs1, vs2, perp_dot_product(vs1, vs2))

\* one round of tri_bounding_box's loop; box = <<min_x, max_x, min_y, max_y>>
BoxStep(box, vec) ==
    LET bx == IF vec[1] < box[1] THEN <<vec[1], box[2]>>
              ELSE IF vec[1] > box[2] THEN <<box[1], vec[1]>>
              ELSE <<box[1], box[2]>>
        by == IF vec[2] < box[3] THEN <<vec[2], box[4]>>
              ELSE IF vec[2] > box[4] THEN <<box[3], vec[2]>>
              ELSE <<box[3], box[4]>>
    IN  <<bx[1], bx[2], by[1], by[2]>>

tri_bounding_box(v1, v2, v3) ==
    BoxStep(BoxStep(<<v1[1], v1[1], v1[2], v1[2]>>, v2), v3)

\* the box clipped from above only
ClipBoxNoFloor(sz, v1, v2, v3) ==
    LET b == tri_bounding_box(v1, v2, v3)
    IN  <<Min(sz[2], b[1]), Min(sz[2], b[2]), Min(sz[1], b[3]), Min(sz[1], b[4])>>

\* draw_tri's box: the bounding box clipped against the backend's size sz = <<rows, cols>>
ClipBox(sz, v1, v2, v3) ==
    LET b == tri_bounding_box(v1, v2, v3)
        emax_y == sz[1]
        emax_x == sz[2]
    IN  <<Min(emax_x, Max(0, b[1])), Min(emax_x, Max(0, b[2])),
          Min(emax_y, Max(0, b[3])), Min(emax_y, Max(0, b[4]))>>

\* the cells draw_tri writes, each with what it writes there
draw_tri(sz, color, v1, v2, v3) ==
    LET b == ClipBox(sz, v1, v2, v3)
        cells == {c \in (b[1] .. b[2]) \X (b[3] .. b[4]) : InsideTri(v1, v2, v3, c[1], c[2])}
    IN  [c \in cells |-> <<"#", color>>]

RECURSIVE LowLoop(_, _, _, _, _, _, _)
\* the loop of draw_line_low from x on: the draw_cell calls <<glyph, x, y>> in order
LowLoop(x, x1, y, d, dx, dy, yi) ==
    IF x >= x1 THEN <<>>
    ELSE << <<"#", x, y>> >> \o
         LowLoop(x + 1, x1, IF d > 0 THEN y + yi ELSE y,
                 (IF d > 0 THEN d - 2 * dx ELSE d) + 2 * dy, dx, dy, yi)

draw_line_low(x0, y0, x1, y1) ==
    LET dx == x1 - x0
        yi == IF y1 - y0 < 0 THEN -1 ELSE 1
        dy == IF y1 - y0 < 0 THEN -(y1 - y0) ELSE y1 - y0
    IN  LowLoop(x0, x1, y0, 2 * dy - dx, dx, dy, yi)

RECURSIVE HighLoop(_, _, _, _, _, _, _)
\* the loop of draw_line_high from y on
HighLoop(y, y1, x, d, dx, dy, xi) ==
    IF y >= y1 THEN <<>>
    ELSE << <<"#", x, y>> >> \o
         HighLoop(y + 1, y1, IF d > 0 THEN x + xi ELSE x,
                  (IF d > 0 THEN d - 2 * dy ELSE d) + 2 * dx, dx, dy, xi)

draw_line_high(x0, y0, x1, y1) ==
    LET dy == y1 - y0
        xi == IF x1 - x0 < 0 THEN -1 ELSE 1
        dx == IF x1 - x0 < 0 THEN -(x1 - x0) ELSE x1 - x0
    IN  HighLoop(y0, y1, x0, 2 * dx - dy, dx, dy, xi)

\* the draw_cell calls of draw_line, in order
draw_line(x0, y0, x1, y1) ==
    IF x0 = x1 THEN [i \in 1 .. (y1 - y0 + 1) |-> <<"|", x0, y0 + i - 1>>]
    ELSE IF y0 = y1 THEN [i \in 1 .. (x1 - x0 + 1) |-> <<"-", x0 + i - 1, y0>>]
    ELSE IF Abs(y1 - y0) < Abs(x1 - x0)
         THEN IF x0 > x1 THEN draw_line_low(x1, y1, x0, y0)
                         ELSE draw_line_low(x0, y0, x1, y1)
         ELSE IF y0 > y1 THEN draw_line_high(x1, y1, x0, y0)
                         ELSE draw_line_high(x0, y0, x1, y1)

-----------------------------------------------------------------------------
(* Projector, visibility test and depth sort: the body of run's loop *)

\* (centre + a * f) as i32 with f = 200. / z; a division by z = 0. gives an
\* infinity (or NaN for a = 0.), which the cast saturates (or turns into 0)
ScreenCoord(centre, a, z) ==
    IF z = 0
    THEN IF a > 0 THEN I32Max ELSE IF a < 0 THEN -I32Max - 1 ELSE 0
    ELSE ToI32(centre + Mul(a, Div(Focal * One, z)))

\* one round of the loop over verts: <<the vert_list entry, the screen_coords entry>>
Project(v, c, ccx, ccy) ==
    LET x0 == v[1] - c.pos[1]
        y0 == v[2] - c.pos[2]
        z0 == v[3] - c.pos[3]
        xz == rotate_2d(<<x0, z0>>, c.rot[2])
        yz == rotate_2d(<<y0, xz[2]>>, c.rot[1])
        x == xz[1]
        y == yz[1]
        z == yz[2]
    IN  << <<x, y, z>>, IVec2(ScreenCoord(ccx, x, z), ScreenCoord(ccy, y, z)) >>

\* the flag without the test of the depth
OnScreenNoDepth(face, vert_list, screen_coords, ww, hh) ==
    \E n \in 1 .. 4 :
        LET p == screen_coords[face[n] + 1]
        IN  p[1] > 0 /\ p[1] < ww /\ p[2] > 0 /\ p[2] < hh

\* the on_screen flag of a face
OnScreen(face, vert_list, screen_coords, ww, hh) ==
    \E n \in 1 .. 4 :
        LET i == face[n] + 1
            p == screen_coords[i]
        IN  vert_list[i][3] > 0 /\ p[1] > 0 /\ p[1] < ww /\ p[2] > 0 /\ p[2] < hh

\* the ordering key pushed to depth
DepthKey(face, vert_list) ==
    LET sum(k) == vert_list[face[1] + 1][k] + vert_list[face[2] + 1][k]
                  + vert_list[face[3] + 1][k] + vert_list[face[4] + 1][k]
    IN  Mul(sum(1), sum(1)) + Mul(sum(2), sum(2)) + Mul(sum(3), sum(3))

RECURSIVE Insert(_, _, _)
\* k put into the sorted s behind every element whose key is not larger
Insert(s, k, depth) ==
    IF s = <<>> THEN <<k>>
    ELSE IF depth[k + 1] < depth[Head(s) + 1] THEN <<k>> \o s
    ELSE <<Head(s)>> \o Insert(Tail(s), k, depth)

RECURSIVE SortByKey(_, _)
\* order.sort_by_key(|&k| depth[k]): stable, ascending
SortByKey(s, depth) ==
    IF s = <<>> THEN <<>>
    ELSE Insert(SortByKey(SubSeq(s, 1, Len(s) - 1), depth), s[Len(s)], depth)

Reverse(s) == [i \in 1 .. Len(s) |-> s[Len(s) + 1 - i]]

\* the order without order.reverse()
DrawOrderNoReverse(depth) == SortByKey([i \in 1 .. Len(depth) |-> i - 1], depth)

DrawOrder(depth) == Reverse(SortByKey([i \in 1 .. Len(depth) |-> i - 1], depth))

\* the lists pushed for the visible faces vis, and the order they are drawn in
FrameLists(vert_list, screen_coords, vis, depth) ==
    [vert_list |-> vert_list,
     screen_coords |-> screen_coords,
     face_ids |-> vis,
     face_list |-> [n \in 1 .. Len(vis) |->
                       [m \in 1 .. 4 |-> screen_coords[faces[vis[n] + 1][m] + 1]]],
     face_color |-> [n \in 1 .. Len(vis) |-> COLORS[vis[n] + 1]],
     depth |-> depth,
     order |-> DrawOrder(depth)]

\* the loop over faces: the faces that are on screen, with their keys
FrameFaces(vert_list, screen_coords, vis) ==
    FrameLists(vert_list, screen_coords, vis,
               [n \in 1 .. Len(vis) |-> DepthKey(faces[vis[n] + 1], vert_list)])

FrameVerts(vert_list, screen_coords, ww, hh) ==
    FrameFaces(vert_list, screen_coords,
               SelectSeq([i \in 1 .. Len(faces) |-> i - 1],
                         LAMBDA i : OnScreen(faces[i + 1], vert_list, screen_coords, ww, hh)))

FrameProjected(pr, ww, hh) ==
    FrameVerts([i \in 1 .. Len(verts) |-> pr[i][1]], [i \in 1 .. Len(verts) |-> pr[i][2]], ww, hh)

\* the frame state the loop builds from the camera and the cached size
FrameState(c, ww, hh, ccx, ccy) ==
    FrameProjected([i \in 1 .. Len(verts) |-> Project(verts[i], c, ccx, ccy)], ww, hh)

\* the screen scr after the draw_cell calls f
Overwrite(scr, f) == f @@ scr

\* the clear loop: a blank in every cell of the cached size
ClearCells(ww, hh) == [c \in (0 .. ww - 1) \X (0 .. hh - 1) |-> <<" ", "default">>]

RECURSIVE DrawFaces(_, _, _, _)
\* the loop over order: two draw_tri calls for each face
DrawFaces(scr, sz, order, f) ==
    IF order = <<>> THEN scr
    ELSE LET i == Head(order) + 1
             p == f.face_list[i]
             color == <<f.face_color[i], "Black">>
             t1 == draw_tri(sz, color, p[1], p[2], p[3])
             t2 == draw_tri(sz, color, p[1], p[4], p[3])
         IN  DrawFaces(Overwrite(Overwrite(scr, t1), t2), sz, Tail(order), f)

-----------------------------------------------------------------------------
(* The collaborators: the display, the clock, the game hook *)

\* sizes <<rows, cols>> the backend reports
Sizes == {<<6, 16>>, <<5, 9>>}

\* the size at Term3D::new
InitialSize == <<6, 16>>

\* how long a stretch of an iteration (the poll and the updates, the clear and
\* the draw) may take; the refresh takes no time
Lags == {0, MaxLag}

\* cameras Game::start may leave behind (it has &mut Term3D)
StartCams ==
    {CameraNew(<<0, One, -50 * One>>, <<0, 0>>),
     CameraNew(<<0, 0, -100 * One>>, <<0, 0>>),
     CameraNew(<<0, One, 50 * One>>, <<0, 0>>)}

\* cameras Game::update may leave behind
UpdateCams == {CameraNew(<<0, -25 * One, -43 * One - 20>>, <<3 * Speed, 0>>)}

NoCalls == [start |-> 0, get_input |-> 0, cam_update |-> 0, game_update |-> 0,
            clear |-> 0, draw_tri |-> 0, refresh |-> 0]

NoFrame == [vert_list |-> <<>>, screen_coords |-> <<>>, face_ids |-> <<>>,
            face_list |-> <<>>, face_color |-> <<>>, depth |-> <<>>, order |-> <<>>]

-----------------------------------------------------------------------------
(* Term3D::new and Term3D::run *)

Term3DNew == CameraNew(<<0, 0, 0>>, <<0, 0>>)

\* escape handled like any other key
AfterPollNoBreak(ev) == "update"

\* a resize that goes straight to the clear
AfterPollSkipUpdate(ev) ==
    IF ev = "Esc" THEN "done" ELSE IF ev = "KeyResize" THEN "render" ELSE "update"

\* where run goes after the poll: out of the loop on escape
AfterPoll(ev) == IF ev = "Esc" THEN "done" ELSE "update"

\* the delta measured from the top of the loop
NextDeltaFromTop(top, after, t) == t - top

\* the delta_time computed at the end of an iteration
NextDelta(top, after, t) == t - after

\* the sleep of the pacing step: frame_target_duration.checked_sub(elapsed)
FrameRemaining(elapsed) ==
    IF frame_target_duration - elapsed >= 0 THEN frame_target_duration - elapsed ELSE 0

RunInit ==
    /\ pc = "new"
    /\ cam = Term3DNew
    /\ term = InitialSize
    /\ w = 0 /\ h = 0 /\ cx = 0 /\ cy = 0
    /\ delta_time = 0
    /\ now = 0 /\ top_of_loop = 0 /\ after_updates = 0
    /\ key = "None"
    /\ screen = << >>
    /\ fs = NoFrame
    /\ iter = 0
    /\ calls = NoCalls
    /\ ops = << >>
    /\ hist = [camAtPoll |-> Term3DNew, camAfterPoll |-> Term3DNew, camDelta |-> -1,
               hookDelta |-> -1, checkpoint |-> 0, span |-> 0, atPoll |-> NoCalls]
    /\ args = << >>
    /\ out = << >>

\* run up to the loop: the cached size, the centre, delta_time, game.start
Start ==
    /\ pc = "new"
    /\ h' = term[1]
    /\ w' = term[2]
    /\ cx' = (term[2] * One) \div 2
    /\ cy' = (term[1] * One) \div 2
    /\ delta_time' = 0
    /\ \E c \in {cam} \cup StartCams : cam' = c
    /\ calls' = [calls EXCEPT !.start = @ + 1]
    /\ pc' = "poll"
    /\ UNCHANGED <<term, now, top_of_loop, after_updates, key, screen, fs, iter, ops,
                   hist, args, out>>

\* the top of the loop: the poll and what the event selects
Poll ==
    /\ pc = "poll"
    /\ iter < MaxFrames
    /\ \E ev \in Events :
        /\ key' = ev
        /\ pc' = AfterPoll(ev)
        /\ IF ev = "KeyResize"
           THEN \E sz \in Sizes :
                    /\ term' = sz
                    /\ w' = sz[2]
                    /\ h' = sz[1]
                    /\ cx' = (sz[2] * One) \div 2
                    /\ cy' = (sz[1] * One) \div 2
           ELSE UNCHANGED <<term, w, h, cx, cy>>
        /\ cam' = IF ev \in {"Esc", "KeyResize"} THEN cam
                  ELSE CameraUpdate(cam, delta_time, ev)
        /\ calls' = [calls EXCEPT !.get_input = @ + 1,
                                  !.cam_update = IF ev \in {"Esc", "KeyResize"} THEN @ ELSE @ + 1]
        /\ ops' = IF ev = "Esc" THEN <<"poll">>
                  ELSE IF ev = "KeyResize" THEN <<"poll", "resize">>
                  ELSE <<"poll", "cam_update">>
        /\ hist' = [hist EXCEPT !.camAtPoll = cam,
                                !.camAfterPoll = cam',
                                !.camDelta = IF ev \in {"Esc", "KeyResize"} THEN -1 ELSE delta_time,
                                !.hookDelta = -1,
                                !.atPoll = [calls EXCEPT !.get_input = @ + 1]]
    /\ top_of_loop' = now
    /\ iter' = iter + 1
    /\ UNCHANGED <<delta_time, now, after_updates, screen, fs, args, out>>

\* game.update and the checkpoint after it
GameUpdate ==
    /\ pc = "update"
    /\ \E c \in {cam} \cup UpdateCams : cam' = c
    /\ \E lag \in Lags :
        /\ now' = now + lag
        /\ after_updates' = now + lag
        /\ hist' = [hist EXCEPT !.hookDelta = delta_time, !.checkpoint = now + lag]
    /\ calls' = [calls EXCEPT !.game_update = @ + 1]
    /\ ops' = ops \o <<"game_update", "checkpoint">>
    /\ pc' = "render"
    /\ UNCHANGED <<term, w, h, cx, cy, delta_time, top_of_loop, key, screen, fs, iter,
                   args, out>>

\* the clear loop and the draw loop on the frame state f
Draw(f) ==
    /\ fs' = f
    /\ screen' = DrawFaces(Overwrite(screen, ClearCells(w, h)), term, f.order, f)
    /\ calls' = [calls EXCEPT !.clear = @ + 1, !.draw_tri = @ + 2 * Len(f.order)]

\* the clear, the projection, the visibility test, the sort and the draw
Render ==
    /\ pc = "render"
    /\ Draw(FrameState(cam, w, h, cx, cy))
    /\ \E lag \in Lags : now' = now + lag
    /\ ops' = ops \o <<"clear", "draw">>
    /\ pc' = "pace"
    /\ UNCHANGED <<cam, term, w, h, cx, cy, delta_time, top_of_loop, after_updates, key,
                   iter, hist, args, out>>

\* the pacing sleep, the refresh and the delta of the next iteration; the
\* locals of the iteration end with it, and the clock is read from here on
Pace ==
    /\ pc = "pace"
    /\ LET refreshed == now + FrameRemaining(now - top_of_loop)
       IN  /\ now' = 0
           /\ delta_time' = NextDelta(top_of_loop, after_updates, refreshed)
           /\ hist' = [camAtPoll |-> cam, camAfterPoll |-> cam, camDelta |-> -1,
                       hookDelta |-> -1, checkpoint |-> 0,
                       span |-> refreshed - hist.checkpoint, atPoll |-> calls]
    /\ calls' = [calls EXCEPT !.refresh = @ + 1]
    /\ ops' = ops \o <<"sleep", "refresh", "delta">>
    /\ key' = "None"
    /\ fs' = NoFrame
    /\ top_of_loop' = 0
    /\ after_updates' = 0
    /\ pc' = "poll"
    /\ UNCHANGED <<cam, term, w, h, cx, cy, screen, iter, args, out>>

Next == Start \/ Poll \/ GameUpdate \/ Render \/ Pace

Spec == RunInit /\ [][Next]_vars

-----------------------------------------------------------------------------
(* The rasterizer primitives on their own: one call, with arguments from    *)
(* small ranges                                                             *)

\* sizes <<rows, cols>> of the backend draw_tri clips against
TriSizes == {<<1, 2>>, <<3, 1>>}

TriCoords == (-1) .. MaxTriCoord

LineCoords == 0 .. MaxLineCoord

\* the state of a Term3D on which run has not been called
Idle ==
    /\ cam = Term3DNew
    /\ term = InitialSize
    /\ w = 0 /\ h = 0 /\ cx = 0 /\ cy = 0
    /\ delta_time = 0
    /\ now = 0 /\ top_of_loop = 0 /\ after_updates = 0
    /\ key = "None"
    /\ screen = << >>
    /\ fs = NoFrame
    /\ iter = 0
    /\ calls = NoCalls
    /\ ops = << >>
    /\ hist = [camAtPoll |-> Term3DNew, camAfterPoll |-> Term3DNew, camDelta |-> -1,
               hookDelta |-> -1, checkpoint |-> 0, span |-> 0, atPoll |-> NoCalls]

TriInit ==
    /\ Idle
    /\ pc = "draw_tri"
    /\ args \in [sz : TriSizes, v1 : TriCoords \X TriCoords, v2 : TriCoords \X TriCoords,
                 v3 : TriCoords \X TriCoords]
    /\ out = << >>

\* Term3D::draw_tri(e, color, v1, v2, v3) on a backend of size args.sz
DrawTriCall ==
    /\ pc = "draw_tri"
    /\ out' = [bbox |-> tri_bounding_box(args.v1, args.v2, args.v3),
               clip |-> ClipBox(args.sz, args.v1, args.v2, args.v3),
               cells |-> DOMAIN draw_tri(args.sz, <<"Red", "Black">>, args.v1, args.v2, args.v3)]
    /\ pc' = "returned"
    /\ UNCHANGED <<cam, term, w, h, cx, cy, delta_time, now, top_of_loop, after_updates,
                   key, screen, fs, iter, calls, ops, hist, args>>

SpecTri == TriInit /\ [][DrawTriCall]_vars

LineInit ==
    /\ Idle
    /\ pc = "draw_line"
    /\ args \in [x0 : LineCoords, y0 : LineCoords, x1 : LineCoords, y1 : LineCoords]
    /\ out = << >>

\* Term3D::draw_line(e, x0, y0, x1, y1)
DrawLineCall ==
    /\ pc = "draw_line"
    /\ out' = draw_line(args.x0, args.y0, args.x1, args.y1)
    /\ pc' = "returned"
    /\ UNCHANGED <<cam, term, w, h, cx, cy, delta_time, now, top_of_loop, after_updates,
                   key, screen, fs, iter, calls, ops, hist, args>>

SpecLine == LineInit /\ [][DrawLineCall]_vars

-----------------------------------------------------------------------------
(* Properties of run *)

Range(q) == {q[n] : n \in DOMAIN q}

FaceIds == 0 .. (Len(faces) - 1)

\* the faces drawn in the iteration, in the order of their draw_tri calls
Drawn == [n \in 1 .. Len(fs.order) |-> fs.face_ids[fs.order[n] + 1]]

\* a vertex of face i lies before the camera and on a cell of the display
SomeVertexOnDisplay(i) ==
    \E m \in 1 .. 4 :
        LET v == faces[i + 1][m] + 1
        IN  /\ fs.vert_list[v][3] > 0
            /\ 0 <= fs.screen_coords[v][1] /\ fs.screen_coords[v][1] < w
            /\ 0 <= fs.screen_coords[v][2] /\ fs.screen_coords[v][2] < h

AllVerticesOffDisplay(i) ==
    \A m \in 1 .. 4 :
        LET p == fs.screen_coords[faces[i + 1][m] + 1]
        IN  ~(0 <= p[1] /\ p[1] < w /\ 0 <= p[2] /\ p[2] < h)

AllVerticesBehind(i) == \A m \in 1 .. 4 : fs.vert_list[faces[i + 1][m] + 1][3] <= 0

\* sum over the axes of the squared sum of the coordinate over the 4 vertices
OrderingKey(i) ==
    LET sum(k) == fs.vert_list[faces[i + 1][1] + 1][k] + fs.vert_list[faces[i + 1][2] + 1][k]
                  + fs.vert_list[faces[i + 1][3] + 1][k] + fs.vert_list[faces[i + 1][4] + 1][k]
    IN  Mul(sum(1), sum(1)) + Mul(sum(2), sum(2)) + Mul(sum(3), sum(3))

\* C1: once a poll returns the escape key the loop has ended in that
\* iteration, and nothing was called after the poll: no Camera::update, no
\* hook update, no clear, no draw_tri, no refresh.
C1_EscapeEndsTheLoop ==
    key = "Esc" => /\ pc = "done"
                   /\ calls = hist.atPoll
                   /\ ops = <<"poll">>

\* C1, witness: the loop ended by escape after an iteration that drew faces
C1_Witness == pc = "done" /\ key = "Esc" /\ iter = 2 /\ calls.draw_tri > 0 /\ calls.refresh = 1

\* C2, as amended: start is called exactly once, before the first poll,
\* Camera::update, hook update and draw; the hook's update is called once in
\* every iteration whose poll does not return escape, and not at all in the
\* iteration whose poll does.
C2_StartOnceUpdatePerIteration ==
    /\ pc = "new" => calls = NoCalls
    /\ pc # "new" => calls.start = 1
    /\ calls.game_update = IF pc \in {"update", "done"} THEN iter - 1 ELSE iter

\* C2, witness: a run of two iterations, the second ended by escape
C2_Witness == pc = "done" /\ iter = 2 /\ calls.start = 1 /\ calls.game_update = 1

\* C2, as stated: between iterations and after the loop, the hook's update
\* has been called once for every iteration of the loop.
C2_UpdateOnceInEveryIteration ==
    pc \in {"poll", "done"} => calls.game_update = iter

\* C3, as stated: a face with a vertex of depth > 0 whose screen point has
\* 0 <= x < W and 0 <= y < H is in the draw list of the frame.
C3_VertexOnDisplayIsDrawn ==
    pc = "pace" => \A i \in FaceIds : SomeVertexOnDisplay(i) => i \in Range(Drawn)

\* C4: a face whose 4 screen points all lie outside [0,W) x [0,H), or whose 4
\* vertices all have depth <= 0, is not in the draw list of the frame.
C4_OffDisplayIsNotDrawn ==
    pc = "pace" =>
        \A i \in FaceIds :
            AllVerticesOffDisplay(i) \/ AllVerticesBehind(i) => i \notin Range(Drawn)

\* C4, witness: a frame that draws some faces and leaves out one whose
\* vertices are before the camera and off the display
C4_Witness ==
    /\ pc = "pace"
    /\ Len(fs.order) > 0
    /\ \E i \in FaceIds :
          AllVerticesOffDisplay(i) /\ ~AllVerticesBehind(i) /\ i \notin Range(Drawn)

\* C5: the faces drawn are exactly the faces that pass the visibility test,
\* each once, and of two faces drawn one after the other the earlier has the
\* larger or equal ordering key.
C5_DrawnFarthestKeyFirst ==
    pc = "pace" =>
        /\ Range(Drawn) = {i \in FaceIds : OnScreen(faces[i + 1], fs.vert_list,
                                                    fs.screen_coords, w, h)}
        /\ \A m, n \in 1 .. Len(Drawn) : m # n => Drawn[m] # Drawn[n]
        /\ calls.draw_tri - hist.atPoll.draw_tri = 2 * Len(Drawn)
        /\ \A n \in 1 .. (Len(Drawn) - 1) : OrderingKey(Drawn[n]) >= OrderingKey(Drawn[n + 1])

\* C5, witness: a frame that draws at least three faces whose keys differ
C5_Witness ==
    /\ pc = "pace"
    /\ Len(Drawn) >= 3
    /\ OrderingKey(Drawn[1]) > OrderingKey(Drawn[Len(Drawn)])

\* C9: Camera::update changes only what its event names, and the poll of a
\* resize does not call it.
C9_CameraUpdateFrame ==
    pc = "update" =>
        LET b == hist.camAtPoll
        IN  /\ key \in {"None", "x"} => cam = b
            /\ key \in {"q", "e"} =>
                  cam.pos[1] = b.pos[1] /\ cam.pos[3] = b.pos[3] /\ cam.rot = b.rot
            /\ key \in {"w", "a", "s", "d"} => cam.pos[2] = b.pos[2] /\ cam.rot = b.rot
            /\ key \in {"KeyUp", "KeyDown"} => cam.pos = b.pos /\ cam.rot[2] = b.rot[2]
            /\ key \in {"KeyLeft", "KeyRight"} => cam.pos = b.pos /\ cam.rot[1] = b.rot[1]
            /\ key = "KeyResize" => cam = b /\ calls.cam_update = hist.atPoll.cam_update

\* C9, witness: a look-up key that has turned the pitch
C9_Witness ==
    /\ pc = "update"
    /\ key = "KeyUp"
    /\ cam.rot[1] # hist.camAtPoll.rot[1]

\* C10: the delta passed to Camera::update and to the hook's update is the
\* time from the checkpoint of the iteration before to the end of its
\* refresh, and 0 in the first iteration; a completed iteration runs poll,
\* updates, checkpoint, clear, draw, sleep, refresh, delta.
C10_DeltaIsRenderAndPacingTime ==
    /\ pc = "update" /\ key # "KeyResize" => hist.camDelta = hist.span
    /\ pc = "render" => hist.hookDelta = hist.span
    /\ iter = 1 /\ pc \in {"update", "render", "pace"} => delta_time = 0 /\ hist.span = 0
    /\ pc = "poll" /\ iter > 0 =>
          /\ delta_time = hist.span
          /\ \E o \in {"cam_update", "resize"} :
                ops = <<"poll", o, "game_update", "checkpoint", "clear", "draw",
                        "sleep", "refresh", "delta">>

\* C10, witness: the updates of a second iteration have got a positive delta
C10_Witness ==
    /\ pc = "render"
    /\ iter = 2
    /\ hist.hookDelta > 0
    /\ hist.camDelta = hist.hookDelta

-----------------------------------------------------------------------------
(* Properties of the rasterizer primitives *)

TriVertices == {args.v1, args.v2, args.v3}

\* perpDot(vs1, vs2) of the triangle of the call: 0 for collinear vertices
TriDenominator ==
    perp_dot_product(IVec2(args.v2[1] - args.v1[1], args.v2[2] - args.v1[2]),
                     IVec2(args.v3[1] - args.v1[1], args.v3[2] - args.v1[2]))

InClip(v) ==
    /\ out.clip[1] <= v[1] /\ v[1] <= out.clip[2]
    /\ out.clip[3] <= v[2] /\ v[2] <= out.clip[4]

\* C6: the bounding box holds the three points; the clipped box lies in
\* [0,W] x [0,H] with min <= max; every cell draw_tri writes lies in it.
C6_BoxHoldsPointsAndClipIsInBounds ==
    pc = "returned" =>
        /\ \A v \in TriVertices :
              /\ out.bbox[1] <= v[1] /\ v[1] <= out.bbox[2]
              /\ out.bbox[3] <= v[2] /\ v[2] <= out.bbox[4]
        /\ 0 <= out.clip[1] /\ out.clip[1] <= out.clip[2] /\ out.clip[2] <= args.sz[2]
        /\ 0 <= out.clip[3] /\ out.clip[3] <= out.clip[4] /\ out.clip[4] <= args.sz[1]
        /\ \A c \in out.cells :
              0 <= c[1] /\ c[1] <= args.sz[2] /\ 0 <= c[2] /\ c[2] <= args.sz[1]

\* C6, witness: a triangle that sticks out of the display on both sides in
\* x, whose clipped box differs from its bounding box, and that writes cells
C6_Witness ==
    /\ pc = "returned"
    /\ out.bbox[1] < 0
    /\ out.bbox[2] > args.sz[2]
    /\ out.clip = <<0, args.sz[2], out.clip[3], out.clip[4]>>
    /\ out.cells # {}

\* C7, as amended: for a triangle whose vertices are not collinear the test
\* classifies v1, v2 and v3 as inside, and draw_tri writes each of them that
\* lies in the clipped box; for collinear vertices the quotients are not
\* finite and no point is classified as inside.
C7_VerticesOfProperTriangleInside ==
    pc = "returned" =>
        /\ TriDenominator # 0 =>
              \A v \in TriVertices :
                  /\ InsideTri(args.v1, args.v2, args.v3, v[1], v[2])
                  /\ InClip(v) => v \in out.cells
        /\ TriDenominator = 0 => out.cells = {}

\* C7, witness: a triangle with non-collinear vertices, all three written
C7_Witness ==
    /\ pc = "returned"
    /\ TriDenominator # 0
    /\ TriVertices \subseteq out.cells

\* C7, as stated: for every triangle the test classifies v1, v2, v3 as inside.
C7_VerticesOfEveryTriangleInside ==
    pc = "returned" =>
        \A v \in TriVertices : InsideTri(args.v1, args.v2, args.v3, v[1], v[2])

LineCells == {<<out[n][2], out[n][3]>> : n \in DOMAIN out}

\* C8, as stated: draw_line writes a cell at every coordinate of the major
\* axis between the endpoints, in either order of the endpoints: every y of a
\* vertical line, every x of a horizontal line, exactly one cell for every x
\* of a low-slope line; (0,0)-(4,2) gives the Bresenham cells up to (4,2).
C8_LineCoversMajorAxis ==
    pc = "returned" =>
        /\ args.x0 = args.x1 =>
              \A y \in Min(args.y0, args.y1) .. Max(args.y0, args.y1) : <<args.x0, y>> \in LineCells
        /\ args.y0 = args.y1 =>
              \A x \in Min(args.x0, args.x1) .. Max(args.x0, args.x1) : <<x, args.y0>> \in LineCells
        /\ args.y0 # args.y1 /\ Abs(args.y1 - args.y0) < Abs(args.x1 - args.x0) =>
              \A x \in Min(args.x0, args.x1) .. Max(args.x0, args.x1) :
                  Cardinality({n \in DOMAIN out : out[n][2] = x}) = 1
        /\ args = [x0 |-> 0, y0 |-> 0, x1 |-> 4, y1 |-> 2] =>
              out = << <<"#", 0, 0>>, <<"#", 1, 0>>, <<"#", 2, 1>>, <<"#", 3, 1>>, <<"#", 4, 2>> >>

=============================================================================
